---- MODULE Spec2Model ----
(***************************************************************************)
(* Model of AITextAssistant (hybrid text-quality analysis engine).         *)
(*                                                                         *)
(* Texts are sequences of whitespace-separated words drawn from a small    *)
(* vocabulary; a text's characters are the words joined by single spaces.  *)
(* Scores are kept in hundredths (10.0 is 1000) so that rounding to one    *)
(* decimal is observable.  JavaScript values that may be of several types  *)
(* are tagged records [t |-> type, ...].                                   *)
(***************************************************************************)
EXTENDS Integers, Sequences, FiniteSets, TLC

(* ------------------------------ bounds --------------------------------- *)
\* Number of concurrently pending calls on the one assistant instance.
NumCalls == 2
\* Longest text, in words, of the pure-function specification.
MaxWords == 3
\* Longest remote message content, in tokens.
MaxContent == 4

(* --------------------------- strings and text -------------------------- *)
Words ==
  {"Quebrado", "muito", "ruim", "coisa", "vazamento.",
   "impermeabilizacao", "constructor", "não", "funciona"}

\* String.prototype.length of the strings the model handles.
StrLen(s) ==
  CASE s = ""                  -> 0
    [] s = "."                 -> 1
    [] s = "no"                -> 2
    [] s = "não"               -> 3
    [] s = "ruim"              -> 4
    [] s = "muito"             -> 5
    [] s = "ruim."             -> 5
    [] s = "coisa"             -> 5
    [] s = "Quebrado"          -> 8
    [] s = "quebrado"          -> 8
    [] s = "funciona"          -> 8
    [] s = "vazamento"         -> 9
    [] s = "vazamento."        -> 10
    [] s = "constructor"       -> 11
    [] s = "impermeabilizacao" -> 17

\* The punctuation mark a word of the vocabulary ends with, and the word
\* without it.
punct(w) == IF w \in {"vazamento.", "ruim."} THEN "." ELSE ""
stem(w) ==
  CASE w = "vazamento." -> "vazamento"
    [] w = "ruim."      -> "ruim"
    [] OTHER            -> w

\* String.prototype.toLowerCase, per word.
toLowerCase(w) == IF w = "Quebrado" THEN "quebrado" ELSE w

\* word.replace(/[^\w]/g, ''): every character outside [A-Za-z0-9_] is dropped,
\* accented letters included.
cleanWord(w) ==
  CASE w = "vazamento." -> "vazamento"
    [] w = "ruim."      -> "ruim"
    [] w = "não"        -> "no"
    [] OTHER            -> w

RECURSIVE SumLen(_)
SumLen(text) == IF text = <<>> THEN 0 ELSE StrLen(Head(text)) + SumLen(Tail(text))

\* text.length: the words and the single spaces between them.
TextLength(text) == IF text = <<>> THEN 0 ELSE SumLen(text) + Len(text) - 1

\* text.toLowerCase().split(/\s+/): the empty text splits into one empty word.
split(text) == IF text = <<>> THEN <<"">> ELSE [i \in 1..Len(text) |-> toLowerCase(text[i])]

\* text.includes(ch) for the sentence-terminal marks.
includesTerminal(text) == \E i \in 1..Len(text) : punct(text[i]) = "."

(* ------------------------- Lexical Corrector --------------------------- *)
spellCorrections ==
  [w \in {"vazamento", "entupimento", "quebrado", "ruim", "muito", "bem", "mal",
          "defeituoso", "estragado", "furado", "rachado", "solto", "apertado"} |->
     CASE w = "vazamento"   -> "vazamento"
       [] w = "entupimento" -> "entupimento"
       [] w = "quebrado"    -> "danificado"
       [] w = "ruim"        -> "em más condições"
       [] w = "muito"       -> "significativamente"
       [] w = "bem"         -> "adequadamente"
       [] w = "mal"         -> "inadequadamente"
       [] w = "defeituoso"  -> "com defeito"
       [] w = "estragado"   -> "danificado"
       [] w = "furado"      -> "perfurado"
       [] w = "rachado"     -> "com fissuras"
       [] w = "solto"       -> "desencaixado"
       [] w = "apertado"    -> "com folga insuficiente"]

\* this.spellCorrections[cleanWord]: a property read on a plain object, so the
\* names Object.prototype defines are found too.  "" stands for undefined.
lookup(cleanW) ==
  IF cleanW \in DOMAIN spellCorrections THEN spellCorrections[cleanW]
  ELSE IF cleanW = "constructor" THEN "function Object() { [native code] }"
  ELSE ""

RECURSIVE checkWordsFrom(_, _)
checkWordsFrom(words, i) ==
  IF i > Len(words) THEN <<>>
  ELSE LET cw == cleanWord(words[i])
       IN  (IF lookup(cw) # "" /\ lookup(cw) # cw
            THEN << [original |-> words[i], suggestion |-> lookup(cw),
                     position |-> i - 1, type |-> "spelling"] >>
            ELSE <<>>) \o checkWordsFrom(words, i + 1)

checkBasicSpelling(text) == checkWordsFrom(split(text), 1)

(* --------------------------- Pattern Rewriter -------------------------- *)
\* The rule list: pattern is the regular expression's source; every pattern
\* carries the flags g and i.
technicalPatterns ==
  << [pattern |-> "\\b(quebr[ao]d[ao]s?)\\b",
      replacement |-> "danificado(s)",
      suggestion |-> "Use danificado em vez de quebrado para maior precisão técnica."],
     [pattern |-> "\\b(muito|bem)\\s+",
      replacement |-> "",
      suggestion |-> "Evite advérbios vagos. Seja mais específico sobre a intensidade ou qualidade."],
     [pattern |-> "\\b(ruim|péssim[ao]s?)\\b",
      replacement |-> "em condições inadequadas",
      suggestion |-> "Descreva especificamente o que está inadequado."],
     [pattern |-> "\\b(não funciona|não está funcionando)\\b",
      replacement |-> "apresenta falha operacional",
      suggestion |-> "Seja mais específico sobre o tipo de falha."] >>

Patterns == 1..Len(technicalPatterns)

\* How many words rule p's pattern matches starting at word i of txt (0: no
\* match there).  Matching ignores case; (muito|bem)\s+ needs a following
\* whitespace character, so it cannot match the last word.  A word boundary
\* lies between a word and the punctuation mark that follows it.
matchWords(p, txt, i) ==
  LET w == toLowerCase(txt[i])
  IN  CASE p = 1 -> IF w \in {"quebrado", "quebrada", "quebrodo", "quebroda",
                              "quebrados", "quebradas", "quebrodos", "quebrodas"}
                    THEN 1 ELSE 0
        [] p = 2 -> IF w \in {"muito", "bem"} /\ i < Len(txt) THEN 1 ELSE 0
        [] p = 3 -> IF stem(w) \in {"ruim", "péssimo", "péssima", "péssimos", "péssimas"}
                    THEN 1 ELSE 0
        [] p = 4 -> IF w = "não" /\ i < Len(txt) /\ toLowerCase(txt[i + 1]) = "funciona"
                    THEN 2 ELSE 0

\* Character offset at which word i of txt starts.
offset(txt, i) == IF i = 1 THEN 0 ELSE TextLength(SubSeq(txt, 1, i - 1)) + 1

\* Character offset just after the match of rule p at word i of txt: the
\* whitespace (muito|bem)\s+ matches is part of the match, the punctuation
\* mark behind a matched word is not.
matchEnd(p, txt, i) ==
  offset(txt, i) + TextLength(SubSeq(txt, i, i + matchWords(p, txt, i) - 1))
    + (IF p = 2 THEN 1 ELSE 0)
    - (IF p = 3 THEN StrLen(punct(txt[i])) ELSE 0)

\* RegExp.prototype.test of a global pattern: the search starts at lastIndex;
\* a match moves lastIndex behind it, a failure resets lastIndex to 0.
test(p, txt, from) ==
  LET hits == {i \in 1..Len(txt) : matchWords(p, txt, i) > 0 /\ offset(txt, i) >= from}
  IN  IF hits = {} THEN [found |-> FALSE, lastIndex |-> 0]
      ELSE LET i == CHOOSE j \in hits : \A k \in hits : j <= k
           IN  [found |-> TRUE, lastIndex |-> matchEnd(p, txt, i)]

RECURSIVE replaceFrom(_, _, _)
replaceFrom(p, txt, i) ==
  IF i > Len(txt) THEN <<>>
  ELSE IF matchWords(p, txt, i) > 0
       THEN (IF technicalPatterns[p].replacement = "" THEN <<>>
             ELSE << technicalPatterns[p].replacement
                       \o (IF p = 3 THEN punct(txt[i]) ELSE "") >>)
            \o replaceFrom(p, txt, i + matchWords(p, txt, i))
       ELSE << txt[i] >> \o replaceFrom(p, txt, i + 1)

\* String.prototype.replace with a global pattern: every match, left to right,
\* is replaced; the pattern's lastIndex is 0 afterwards.
replace(p, txt) == replaceFrom(p, txt, 1)

\* Mutant of replaceLastIndex: the replacement leaves the pattern's match
\* position where test put it.
replaceLastIndexKept(p, at) == at

\* The match position of rule p's pattern after improvedText.replace(pattern,
\* ...), test having left it at `at`: a global replace starts by resetting it
\* and ends on a failed search, which resets it again.
replaceLastIndex(p, at) == 0

\* The forEach of applyTechnicalPatterns from rule p on: acc is
\* [improvedText, suggestions, lastIndex], lastIndex holding every pattern's
\* match position.
RECURSIVE applyRulesFrom(_, _, _)
applyRulesFrom(p, text, acc) ==
  IF p > Len(technicalPatterns) THEN acc
  ELSE LET t == test(p, text, acc.lastIndex[p])
       IN  IF t.found
           THEN applyRulesFrom(p + 1, text,
                  [improvedText |-> replace(p, acc.improvedText),
                   suggestions |-> Append(acc.suggestions,
                      [type |-> "technical",
                       suggestion |-> technicalPatterns[p].suggestion,
                       pattern |-> technicalPatterns[p].pattern]),
                   lastIndex |-> [acc.lastIndex EXCEPT
                                    ![p] = replaceLastIndex(p, t.lastIndex)]])
           ELSE applyRulesFrom(p + 1, text,
                  [acc EXCEPT !.lastIndex[p] = t.lastIndex])

\* applyTechnicalPatterns(text) with the patterns' match positions li:
\* the returned object and the match positions left behind.
applyTechnicalPatterns(text, li) ==
  applyRulesFrom(1, text, [improvedText |-> text, suggestions |-> <<>>, lastIndex |-> li])

(* -------------------------- Clarity Diagnostics ------------------------ *)
vagueWords == <<"coisa", "negócio", "troço", "isso", "aquilo">>

\* text.toLowerCase().includes(v): of the vocabulary only "coisa" contains a
\* vague word.
includes(text, v) == \E i \in 1..Len(text) : toLowerCase(text[i]) = v

\* wordCount[w] after the forEach over the words.
countOf(words, w) ==
  Cardinality({i \in 1..Len(words) : cleanWord(words[i]) = w /\ StrLen(w) > 3})

\* Object.entries(wordCount) filtered by count > 2: keys in insertion order.
RECURSIVE repeatedFrom(_, _)
repeatedFrom(words, i) ==
  IF i > Len(words) THEN <<>>
  ELSE LET w == cleanWord(words[i])
       IN  (IF countOf(words, w) > 2 /\ \A j \in 1..(i - 1) : cleanWord(words[j]) # w
            THEN << w >> ELSE <<>>) \o repeatedFrom(words, i + 1)

analyzeClarityBasic(text) ==
  LET repeatedWords == repeatedFrom(split(text), 1)
  IN  (IF TextLength(text) < 20
       THEN << [type |-> "length", severity |-> "medium",
                message |-> <<"Descrição muito curta. Adicione mais detalhes sobre o problema.">>,
                suggestion |-> "Inclua informações sobre quando foi observado, extensão do problema e possíveis causas."] >>
       ELSE <<>>)
   \o (IF TextLength(text) > 50 /\ ~includesTerminal(text)
       THEN << [type |-> "punctuation", severity |-> "low",
                message |-> <<"Considere dividir o texto em frases menores.">>,
                suggestion |-> "Use pontos para separar ideias e melhorar a legibilidade."] >>
       ELSE <<>>)
   \o (IF \E k \in 1..Len(vagueWords) : includes(text, vagueWords[k])
       THEN << [type |-> "vague", severity |-> "medium",
                message |-> <<"Evite palavras vagas como coisa, negócio, etc.">>,
                suggestion |-> "Seja específico sobre os objetos e situações mencionados."] >>
       ELSE <<>>)
   \o (IF Len(repeatedWords) > 0
       THEN << [type |-> "repetition", severity |-> "low",
                message |-> <<"Palavras repetidas: ">> \o repeatedWords,
                suggestion |-> "Use sinônimos para evitar repetições excessivas."] >>
       ELSE <<>>)

(* --------------------------- JavaScript values ------------------------- *)
undefined == [t |-> "undefined"]
null == [t |-> "null"]
NaN == [t |-> "NaN"]
Num(v) == [t |-> "number", v |-> v]
Str(v) == [t |-> "string", v |-> v]
Bool(v) == [t |-> "boolean", v |-> v]
Arr(v) == [t |-> "array", v |-> v]
\* A string whose characters matter, kept as its sequence of tokens.
Text(tokens) == [t |-> "string", tokens |-> tokens]

\* ToBoolean.
truthy(x) ==
  CASE x.t \in {"undefined", "null", "NaN"} -> FALSE
    [] x.t = "boolean" -> x.v
    [] x.t = "number"  -> x.v # 0
    [] x.t = "string"  -> IF "tokens" \in DOMAIN x THEN x.tokens # <<>> ELSE x.v # ""
    [] OTHER           -> TRUE

\* o?.f : undefined for null and undefined and for a property o lacks (an
\* array of clarity issues has none of the properties read here).
prop(o, f) == IF o.t = "object" /\ f \in DOMAIN o THEN o[f] ELSE undefined

\* a || b
or(a, b) == IF truthy(a) THEN a ELSE b

(* ---------------------------- Remote Augmenter ------------------------- *)
\* The remote message content is a string, kept as a sequence of tokens: an
\* opening brace, a closing brace, a stretch of prose, or "members": the
\* well-formed comma-separated members of a JSON object, with the object they
\* denote.
Open == [k |-> "{"]
Close == [k |-> "}"]
Prose == [k |-> "Here is the result:"]
Members(obj) == [k |-> "members", obj |-> obj]

\* aiResponse.match(/\{[\s\S]*\}/): from the first opening brace to the last
\* closing brace behind it (the quantifier is greedy); <<>> when there is none.
jsonMatch(tokens) ==
  LET opens == {i \in 1..Len(tokens) : tokens[i] = Open}
  IN  IF opens = {} THEN <<>>
      ELSE LET first == CHOOSE i \in opens : \A j \in opens : i <= j
               closes == {j \in (first + 1)..Len(tokens) : tokens[j] = Close}
           IN  IF closes = {} THEN <<>>
               ELSE LET last == CHOOSE j \in closes : \A k \in closes : k <= j
                    IN  SubSeq(tokens, first, last)

\* JSON.parse of a matched span: [throw |-> TRUE] for a SyntaxError.
JSONparse(span) ==
  IF span = <<Open, Close>> THEN [throw |-> FALSE, v |-> [t |-> "object"]]
  ELSE IF Len(span) = 3 /\ span[1] = Open /\ span[2].k = "members" /\ span[3] = Close
       THEN [throw |-> FALSE, v |-> span[2].obj]
       ELSE [throw |-> TRUE]

\* Mutant of parseFallback: the fallback carries the default score.
parseFallbackScored ==
  [t |-> "object", type |-> Str("basic"),
   suggestions |-> Arr(<<"Análise de IA não disponível. Verifique a conexão.">>),
   score |-> Num(700),
   hasAI |-> Bool(FALSE)]

\* The object returned when no JSON object is found or parsing throws.
parseFallback ==
  [t |-> "object", type |-> Str("basic"),
   suggestions |-> Arr(<<"Análise de IA não disponível. Verifique a conexão.">>),
   hasAI |-> Bool(FALSE)]

\* parseAIResponse(aiResponse).  A content that is no string has no match
\* method: the TypeError is raised inside the try and caught.
parseAIResponse(aiResponse) ==
  IF aiResponse.t # "string" THEN parseFallback
  ELSE LET m == jsonMatch(aiResponse.tokens)
       IN  IF m = <<>> \/ JSONparse(m).throw THEN parseFallback
           ELSE LET parsed == JSONparse(m).v
                IN  [t |-> "object", type |-> Str("ai"),
                     corrections |-> or(prop(parsed, "corrections"), Arr(<<>>)),
                     suggestions |-> or(prop(parsed, "suggestions"), Arr(<<>>)),
                     improvedText |-> or(prop(parsed, "improvedText"), Text(<<>>)),
                     score |-> or(prop(parsed, "score"), Num(700)),
                     hasAI |-> Bool(TRUE)]

\* data.choices[0]?.message?.content || '' : a TypeError when data is null or
\* has no choices.
contentOf(data) ==
  IF data.t # "object" \/ "choices" \notin DOMAIN data THEN [throw |-> TRUE]
  ELSE IF data.choices = <<>> THEN [throw |-> FALSE, v |-> Text(<<>>)]
  ELSE [throw |-> FALSE, v |-> or(data.choices[1].message.content, Text(<<>>))]

(* ---------------------------- Score Aggregator ------------------------- *)
penalty(issue) ==
  CASE issue.severity = "high"   -> 200
    [] issue.severity = "medium" -> 100
    [] issue.severity = "low"    -> 50
    [] OTHER                     -> 0

RECURSIVE penalties(_)
penalties(clarity) ==
  IF clarity = <<>> THEN 0 ELSE penalty(Head(clarity)) + penalties(Tail(clarity))

\* The score after the spelling and clarity penalties, in hundredths.
localScore(spelling, clarity) == 1000 - 50 * Len(spelling) - penalties(clarity)

\* Math.round(score * 10) / 10 of a score given in two-hundredths (halves of
\* a hundredth); the result is in hundredths.  Math.round rounds halves up.
roundTenth(twoHundredths) == ((twoHundredths + 10) \div 20) * 10

\* Math.max(1, Math.min(10, x)): NaN stays NaN.
clamp(x) ==
  IF x.t = "NaN" THEN NaN
  ELSE Num(IF x.v > 1000 THEN 1000 ELSE IF x.v < 100 THEN 100 ELSE x.v)

\* Mutant of calculateOverallScore: aiAnalysis.score is read without the
\* optional chaining, which throws a TypeError on null.
calculateOverallScoreUnchained(spelling, clarity, aiAnalysis) ==
  LET score == localScore(spelling, clarity)
      remote == prop(aiAnalysis, "score")
  IN  IF aiAnalysis.t \in {"null", "undefined"} THEN [t |-> "throw"]
      ELSE IF truthy(remote)
      THEN IF remote.t = "number" THEN clamp(Num(roundTenth(score + remote.v)))
           ELSE clamp(NaN)
      ELSE clamp(Num(roundTenth(2 * score)))

\* Mutant of calculateOverallScore: a remote score replaces the local score
\* instead of being averaged with it.
calculateOverallScoreReplaced(spelling, clarity, aiAnalysis) ==
  LET score == localScore(spelling, clarity)
      remote == prop(aiAnalysis, "score")
  IN  IF truthy(remote)
      THEN IF remote.t = "number" THEN clamp(Num(roundTenth(2 * remote.v)))
           ELSE clamp(NaN)
      ELSE clamp(Num(roundTenth(2 * score)))

\* calculateOverallScore(spelling, clarity, aiAnalysis).  With a string as
\* remote score, score + aiAnalysis.score concatenates and the division yields
\* NaN unless the string is numeric.
calculateOverallScore(spelling, clarity, aiAnalysis) ==
  LET score == localScore(spelling, clarity)
      remote == prop(aiAnalysis, "score")
  IN  IF truthy(remote)
      THEN IF remote.t = "number" THEN clamp(Num(roundTenth(score + remote.v)))
           ELSE clamp(NaN)
      ELSE clamp(Num(roundTenth(2 * score)))

(* ------------------------ Suggestion Consolidator ---------------------- *)
RECURSIVE mapSuggestion(_)
mapSuggestion(items) ==
  IF items = <<>> THEN <<>> ELSE << Head(items).suggestion >> \o mapSuggestion(Tail(items))

\* Mutant of slice: the end index is taken inclusively.
sliceInclusive(list, n) == SubSeq(list, 1, IF Len(list) < n + 1 THEN Len(list) ELSE n + 1)

\* suggestions.slice(0, n)
slice(list, n) == SubSeq(list, 1, IF Len(list) < n THEN Len(list) ELSE n)

\* generateSuggestions(analysis)
generateSuggestions(analysis) ==
  LET remote == prop(analysis.ai, "suggestions")
  IN  slice(
        (IF Len(analysis.spelling) > 0
         THEN << "Correções ortográficas: " \o ToString(Len(analysis.spelling)) \o " encontradas" >>
         ELSE <<>>)
        \o (IF Len(analysis.technical.suggestions) > 0
            THEN mapSuggestion(analysis.technical.suggestions) ELSE <<>>)
        \o (IF Len(analysis.clarity) > 0 THEN mapSuggestion(analysis.clarity) ELSE <<>>)
        \o (IF truthy(remote) THEN remote.v ELSE <<>>),
        3)

(* ---------------------------- Text Corrector --------------------------- *)
\* correctedText.replace(regex, correction.suggestion) for an original without
\* punctuation, regex being \b<original>\b with the flags g and i: every word
\* equal to the original but for its case is replaced, a punctuation mark
\* behind it is kept.  The suggestion found for "constructor" is a function:
\* replace calls it with the match, and Object(match) converts back to the
\* match.
replaceWord(txt, c) ==
  [i \in 1..Len(txt) |->
     IF toLowerCase(stem(txt[i])) = c.original
     THEN (IF c.original = "constructor" THEN stem(txt[i]) ELSE c.suggestion)
            \o punct(txt[i])
     ELSE txt[i]]

\* The same for an original that ends with a full stop.  The original is not
\* escaped, so the stop matches any one character, and the closing \b needs a
\* word character behind that character: the original's own occurrence does
\* not match, while the bare word followed by a space and a further word does,
\* and the replacement swallows the space.
RECURSIVE replaceDottedFrom(_, _, _)
replaceDottedFrom(txt, c, i) ==
  IF i > Len(txt) THEN <<>>
  ELSE IF toLowerCase(txt[i]) = stem(c.original) /\ i < Len(txt)
       THEN LET rest == replaceDottedFrom(txt, c, i + 1)
            IN  << c.suggestion \o Head(rest) >> \o Tail(rest)
       ELSE << txt[i] >> \o replaceDottedFrom(txt, c, i + 1)

\* corrections.spelling.forEach(...) from correction k on.
RECURSIVE replaceSpellingFrom(_, _, _)
replaceSpellingFrom(txt, spelling, k) ==
  IF k > Len(spelling) THEN txt
  ELSE replaceSpellingFrom(
         IF punct(spelling[k].original) = "" THEN replaceWord(txt, spelling[k])
         ELSE replaceDottedFrom(txt, spelling[k], 1),
         spelling, k + 1)

\* corrections.technical?.improvedText, "" standing for undefined.
technicalText(corrections) ==
  IF "technical" \in DOMAIN corrections /\ corrections.technical # null
  THEN corrections.technical.improvedText ELSE <<>>

\* applyCorrections(text, corrections).
applyCorrections(text, corrections) ==
  LET spelled == IF "spelling" \in DOMAIN corrections
                 THEN replaceSpellingFrom(text, corrections.spelling, 1) ELSE text
      rewritten == IF technicalText(corrections) # <<>>
                   THEN technicalText(corrections) ELSE spelled
      remote == prop(prop(corrections, "ai"), "improvedText")
  IN  IF truthy(remote) /\ TextLength(remote.tokens) > 10
      THEN remote.tokens ELSE rewritten

(* ------------------------------- state --------------------------------- *)
VARIABLES
  apiKey,        \* this.apiKey
  isProcessing,  \* this.isProcessing
  lastIndex,     \* lastIndex of each rule's pattern
  pc,            \* per call: where the call stands
  op,            \* per call: the method called
  text,          \* per call: its text argument
  locals,        \* per call: the local analyses analyzeText holds while suspended
  ai,            \* per call: the completion of its analyzeWithAI call
  result,        \* per call: the value the call resolved with
  net,           \* per call: its outbound request, if any
  hist,          \* per call: what happened to it (history, read by no action)
  input,         \* pure-function specification: the arguments
  output         \* pure-function specification: the values computed

vars == <<apiKey, isProcessing, lastIndex, pc, op, text, locals, ai, result, net,
          hist, input, output>>

Calls == 1..NumCalls

\* The minimum text length of the remote path: text.length > 10.
MinRemoteLength == 10

\* The credentials setApiKey is called with.
Keys == {null, Str("sk-test")}

\* The texts the calls are made with: one of exactly 10 characters, and one of
\* 19 characters with three dictionary words and three rule matches.
CallTexts ==
  { <<"vazamento.">>,
    <<"Quebrado", "muito", "ruim">> }

\* The text analyzeWithAI is called with directly: it is sent although it is
\* no longer than 10 characters, the length condition being analyzeText's.
DirectTexts == { <<"vazamento.">> }

\* The context arguments: none (the default {} applies), an object with the
\* occurrence type, and null.
Contexts == {undefined, [t |-> "object", tipo |-> Str("Hidráulica")], null}

\* Parsed JSON objects the remote service answers with.
ScoreNine == [t |-> "object", score |-> Num(900), suggestions |-> Arr(<<"ok">>)]
ScoreText == [t |-> "object", score |-> Str("oito")]
FullAnswer ==
  [t |-> "object", score |-> Num(733),
   corrections |-> Arr(<<"c1">>),
   suggestions |-> Arr(<<"s1", "s2", "s3", "s4">>),
   improvedText |-> Text(<<"impermeabilizacao">>)]

\* What response.json() resolves with; [t |-> "reject"] stands for its
\* rejection (the body is no JSON, or the connection drops while reading).
message(content) == [t |-> "object", choices |-> << [message |-> [content |-> content]] >>]

Bodies ==
  { [t |-> "reject"],
    [t |-> "object"],
    message(Text(<<Open, Prose, Close>>)),
    message(Text(<<Prose, Open, Members(ScoreNine), Close>>)) }

NoLocals == [spelling |-> <<>>, technical |-> null, clarity |-> <<>>]
NoHist == [keyed |-> FALSE, busy |-> FALSE, issued |-> FALSE, reply |-> "none"]

Init ==
  /\ apiKey = null
  /\ isProcessing = FALSE
  /\ lastIndex = [p \in Patterns |-> 0]
  /\ pc = [c \in Calls |-> "idle"]
  /\ op = [c \in Calls |-> "none"]
  /\ text = [c \in Calls |-> <<>>]
  /\ locals = [c \in Calls |-> NoLocals]
  /\ ai = [c \in Calls |-> undefined]
  /\ result = [c \in Calls |-> undefined]
  /\ net = [c \in Calls |-> "none"]
  /\ hist = [c \in Calls |-> NoHist]
  /\ input = undefined
  /\ output = undefined

(* ------------------------------ operations ----------------------------- *)
\* setApiKey(key)
SetApiKey(key) ==
  /\ key # apiKey
  /\ apiKey' = key
  /\ UNCHANGED <<isProcessing, lastIndex, pc, op, text, locals, ai, result, net,
                 hist, input, output>>

\* Mutant of guard: the in-flight flag is not consulted.
guardKeyOnly(key, flag) == ~truthy(key)

\* analyzeWithAI's guard: !this.apiKey || this.isProcessing
guard(key, flag) == ~truthy(key) \/ flag

\* Mutant of remoteGate: the length comparison is not strict.
remoteGateAtLeast(key, txt) == truthy(key) /\ TextLength(txt) >= MinRemoteLength

\* analyzeText's condition for trying the remote path.
remoteGate(key, txt) == truthy(key) /\ TextLength(txt) > MinRemoteLength

\* Mutant of afterFinally: the flag is cleared at the end of the try block
\* instead of in a finally block, so only the exits through parseAIResponse
\* clear it.
afterTryOnly(exit) == exit \notin {"parsed", "malformed"}

\* this.isProcessing once analyzeWithAI leaves its try statement through the
\* given exit (the finally block runs on every one of them).
afterFinally(exit) == FALSE

\* buildAnalysisPrompt(text, context), context = {} when the argument is
\* undefined: reading context.tipo of null throws a TypeError.
buildAnalysisPrompt(txt, ctx) ==
  IF ctx = null THEN [throw |-> TRUE]
  ELSE [throw |-> FALSE,
        v |-> [contextInfo |-> IF truthy(prop(ctx, "tipo")) THEN ctx.tipo ELSE Str(""),
               text |-> txt]]

\* The catch block of analyzeWithAI: the clarity issues of the text.
catchAI(txt) == Arr(analyzeClarityBasic(txt))

\* The value of analyzeWithAI once response.json() has settled with body.
afterJson(body, txt) ==
  IF body.t = "reject" \/ contentOf(body).throw THEN catchAI(txt)
  ELSE parseAIResponse(contentOf(body).v)

\* How the remote call ended, for the record.
replyClass(body) ==
  IF body.t = "reject" THEN "bodyError"
  ELSE IF contentOf(body).throw THEN "noChoices"
  ELSE LET c == contentOf(body).v
       IN  IF c.t = "string" /\ jsonMatch(c.tokens) # <<>> /\ ~JSONparse(jsonMatch(c.tokens)).throw
           THEN "parsed" ELSE "malformed"

\* The value analyzeText returns, given its local analyses and the completion
\* of analyzeWithAI (absent: the remote path was not tried); an exception out
\* of analyzeWithAI is caught and leaves aiAnalysis null.
analyzeTextReturn(loc, completion) ==
  LET aiAnalysis == IF completion = undefined \/ completion.throw THEN null ELSE completion.v
      overall == calculateOverallScore(loc.spelling, loc.clarity, aiAnalysis)
  IN  IF overall.t = "throw" THEN [throw |-> TRUE]
      ELSE [throw |-> FALSE,
            v |-> [t |-> "object",
                   spelling |-> loc.spelling,
                   technical |-> loc.technical,
                   clarity |-> loc.clarity,
                   ai |-> aiAnalysis,
                   hasAI |-> Bool(truthy(prop(aiAnalysis, "hasAI"))),
                   overallScore |-> overall]]

\* analyzeText(text, context), up to its first suspension: the three local
\* analyses, then either the return without a remote attempt, or analyzeWithAI
\* up to its guard's return, its catch of the prompt's exception, or its fetch.
AnalyzeText(c, txt, ctx) ==
  LET tech == applyTechnicalPatterns(txt, lastIndex)
      loc == [spelling |-> checkBasicSpelling(txt),
              technical |-> [improvedText |-> tech.improvedText,
                             suggestions |-> tech.suggestions],
              clarity |-> analyzeClarityBasic(txt)]
      h == [keyed |-> truthy(apiKey), busy |-> isProcessing, issued |-> FALSE,
            reply |-> "none"]
  IN  /\ pc[c] = "idle"
      /\ op' = [op EXCEPT ![c] = "analyzeText"]
      /\ text' = [text EXCEPT ![c] = txt]
      /\ lastIndex' = tech.lastIndex
      /\ locals' = [locals EXCEPT ![c] = loc]
      /\ IF ~remoteGate(apiKey, txt)
         THEN LET r == analyzeTextReturn(loc, undefined)
              IN  /\ pc' = [pc EXCEPT ![c] = IF r.throw THEN "raised" ELSE "done"]
                  /\ result' = [result EXCEPT ![c] = IF r.throw THEN undefined ELSE r.v]
                  /\ hist' = [hist EXCEPT ![c] = [h EXCEPT !.reply = "skipped"]]
                  /\ UNCHANGED <<isProcessing, ai, net>>
         ELSE IF guard(apiKey, isProcessing)
         THEN /\ pc' = [pc EXCEPT ![c] = "resume"]
              /\ ai' = [ai EXCEPT ![c] = [throw |-> FALSE, v |-> Arr(analyzeClarityBasic(txt))]]
              /\ hist' = [hist EXCEPT ![c] = [h EXCEPT !.reply = "rejected"]]
              /\ UNCHANGED <<isProcessing, result, net>>
         ELSE IF buildAnalysisPrompt(txt, ctx).throw
         THEN /\ isProcessing' = afterFinally("prompt")
              /\ pc' = [pc EXCEPT ![c] = "resume"]
              /\ ai' = [ai EXCEPT ![c] = [throw |-> FALSE, v |-> catchAI(txt)]]
              /\ hist' = [hist EXCEPT ![c] = [h EXCEPT !.reply = "prompt"]]
              /\ UNCHANGED <<result, net>>
         ELSE /\ isProcessing' = TRUE
              /\ pc' = [pc EXCEPT ![c] = "fetch"]
              /\ net' = [net EXCEPT ![c] = "pending"]
              /\ hist' = [hist EXCEPT ![c] = [h EXCEPT !.issued = TRUE]]
              /\ UNCHANGED <<ai, result>>
      /\ UNCHANGED <<apiKey, input, output>>

\* analyzeWithAI(text, context) called directly, up to its guard's return, its
\* catch of the prompt's exception, or its fetch.
AnalyzeWithAI(c, txt, ctx) ==
  LET h == [keyed |-> truthy(apiKey), busy |-> isProcessing, issued |-> FALSE,
            reply |-> "none"]
  IN  /\ pc[c] = "idle"
      /\ op' = [op EXCEPT ![c] = "analyzeWithAI"]
      /\ text' = [text EXCEPT ![c] = txt]
      /\ IF guard(apiKey, isProcessing)
         THEN /\ pc' = [pc EXCEPT ![c] = "done"]
              /\ result' = [result EXCEPT ![c] = Arr(analyzeClarityBasic(txt))]
              /\ hist' = [hist EXCEPT ![c] = [h EXCEPT !.reply = "rejected"]]
              /\ UNCHANGED <<isProcessing, net>>
         ELSE IF buildAnalysisPrompt(txt, ctx).throw
         THEN /\ isProcessing' = afterFinally("prompt")
              /\ pc' = [pc EXCEPT ![c] = "done"]
              /\ result' = [result EXCEPT ![c] = catchAI(txt)]
              /\ hist' = [hist EXCEPT ![c] = [h EXCEPT !.reply = "prompt"]]
              /\ UNCHANGED net
         ELSE /\ isProcessing' = TRUE
              /\ pc' = [pc EXCEPT ![c] = "fetch"]
              /\ net' = [net EXCEPT ![c] = "pending"]
              /\ hist' = [hist EXCEPT ![c] = [h EXCEPT !.issued = TRUE]]
              /\ UNCHANGED result
      /\ UNCHANGED <<apiKey, lastIndex, locals, ai, input, output>>

\* analyzeWithAI returns value v through the given exit of its try statement:
\* the finally block runs, the request is over, and the value goes to the
\* suspended analyzeText or, for a direct call, to the caller.
Return(c, v, exit) ==
  /\ isProcessing' = afterFinally(exit)
  /\ net' = [net EXCEPT ![c] = "none"]
  /\ hist' = [hist EXCEPT ![c].reply = exit]
  /\ IF op[c] = "analyzeText"
     THEN /\ pc' = [pc EXCEPT ![c] = "resume"]
          /\ ai' = [ai EXCEPT ![c] = [throw |-> FALSE, v |-> v]]
          /\ UNCHANGED result
     ELSE /\ pc' = [pc EXCEPT ![c] = "done"]
          /\ result' = [result EXCEPT ![c] = v]
          /\ UNCHANGED ai
  /\ UNCHANGED <<apiKey, lastIndex, op, text, locals, input, output>>

\* The fetch settles: rejected (transport failure), or fulfilled with a
\* response whose ok is false or true.  Nothing obliges it to settle: there is
\* no timeout, and a request that hangs stays pending for ever.
FetchSettle(c, outcome) ==
  /\ pc[c] = "fetch"
  /\ net[c] = "pending"
  /\ IF outcome = "ok"
     THEN /\ pc' = [pc EXCEPT ![c] = "json"]
          /\ UNCHANGED <<apiKey, isProcessing, lastIndex, op, text, locals, ai,
                         result, net, hist, input, output>>
     ELSE Return(c, catchAI(text[c]), outcome)

\* response.json() settles with body.
JsonSettle(c, body) ==
  /\ pc[c] = "json"
  /\ Return(c, afterJson(body, text[c]), replyClass(body))

\* Mutant of Resume: a call turned away by the guard waits for the request in
\* flight to finish before it goes on.
ResumeWhenIdle(c) ==
  /\ pc[c] = "resume"
  /\ ~isProcessing
  /\ LET r == analyzeTextReturn(locals[c], ai[c])
     IN  /\ pc' = [pc EXCEPT ![c] = IF r.throw THEN "raised" ELSE "done"]
         /\ result' = [result EXCEPT ![c] = IF r.throw THEN undefined ELSE r.v]
  /\ UNCHANGED <<apiKey, isProcessing, lastIndex, op, text, locals, ai, net,
                 hist, input, output>>

\* analyzeText resumes behind its await and returns.
Resume(c) ==
  /\ pc[c] = "resume"
  /\ LET r == analyzeTextReturn(locals[c], ai[c])
     IN  /\ pc' = [pc EXCEPT ![c] = IF r.throw THEN "raised" ELSE "done"]
         /\ result' = [result EXCEPT ![c] = IF r.throw THEN undefined ELSE r.v]
  /\ UNCHANGED <<apiKey, isProcessing, lastIndex, op, text, locals, ai, net,
                 hist, input, output>>

\* The caller takes the resolved value; the slot serves the next call.
Collect(c) ==
  /\ pc[c] = "done"
  /\ pc' = [pc EXCEPT ![c] = "idle"]
  /\ op' = [op EXCEPT ![c] = "none"]
  /\ text' = [text EXCEPT ![c] = <<>>]
  /\ locals' = [locals EXCEPT ![c] = NoLocals]
  /\ ai' = [ai EXCEPT ![c] = undefined]
  /\ result' = [result EXCEPT ![c] = undefined]
  /\ hist' = [hist EXCEPT ![c] = NoHist]
  /\ UNCHANGED <<apiKey, isProcessing, lastIndex, net, input, output>>

Next ==
  \/ \E key \in Keys : SetApiKey(key)
  \/ \E c \in Calls, txt \in CallTexts, ctx \in Contexts : AnalyzeText(c, txt, ctx)
  \/ \E c \in Calls, txt \in DirectTexts, ctx \in Contexts : AnalyzeWithAI(c, txt, ctx)
  \/ \E c \in Calls, outcome \in {"transport", "status", "ok"} : FetchSettle(c, outcome)
  \/ \E c \in Calls, body \in Bodies : JsonSettle(c, body)
  \/ \E c \in Calls : Resume(c)
  \/ \E c \in Calls : Collect(c)

Spec == Init /\ [][Next]_vars

\* The event loop runs every continuation that is ready: a call behind its
\* await resumes.  Nothing makes the network answer.
FairSpec == Spec /\ \A c \in Calls : WF_vars(Resume(c))

(* ------------------- pure-function specification ----------------------- *)
\* Every text of at most MaxWords words.
AllTexts == UNION {[1..k -> Words] : k \in 0..MaxWords}

\* Parsed JSON objects with remote scores inside and outside 1..10, zero, a
\* non-numeric string, and none.
PureAnswers ==
  { ScoreNine, ScoreText, FullAnswer,
    [t |-> "object"],
    [t |-> "object", score |-> Num(0)],
    [t |-> "object", score |-> Num(100)],
    [t |-> "object", score |-> Num(960)],
    [t |-> "object", score |-> Num(1000)],
    [t |-> "object", score |-> Num(2500)],
    [t |-> "object", score |-> Num(-300)],
    [t |-> "object", suggestions |-> Arr(<<"s1", "s2">>)] }

PureBodies ==
  Bodies
  \cup {message(Text(<<Open, Members(a), Close>>)) : a \in PureAnswers}
  \cup {message(Text(<<Open, Members(FullAnswer), Close, Prose>>))}
  \cup {[t |-> "object", choices |-> <<>>],
        message(undefined), message(Num(500)), message(Text(<<Prose>>))}

\* How the remote path of one analysis went: not tried, ended by the guard or
\* the catch block, or response.json() settled with a body.
PureReplies ==
  {[t |-> "none"], [t |-> "clarity"]} \cup {[t |-> "body", body |-> b] : b \in PureBodies}

\* Every message content of at most MaxContent tokens.
ContentTokens == {Open, Close, Prose, Members(ScoreNine), Members(ScoreText)}
AllContents == UNION {[1..k -> ContentTokens] : k \in 0..MaxContent}

\* The texts applyCorrections is called with: dictionary words, one of them
\* capitalised, one followed by a full stop, and one no rule matches.
CorrectionWords == {"Quebrado", "muito", "ruim", "ruim.", "coisa", "constructor"}
CorrectionTexts == UNION {[1..k -> CorrectionWords] : k \in 0..MaxWords}

\* A remote answer whose improved text is exactly 10 characters long.
ShortAnswer == [t |-> "object", score |-> Num(900), improvedText |-> Text(<<"vazamento.">>)]

\* The remote part of the corrections: none, the clarity issues the guard or
\* the catch block returns, or a parsed answer with a long, a short or no
\* improved text.
CorrectionReplies ==
  {[t |-> "none"], [t |-> "clarity"]}
  \cup {[t |-> "answer", answer |-> a] : a \in {FullAnswer, ShortAnswer, ScoreNine}}

\* The analyses of the text a corrections object may hold.
CorrectionParts == {"neither", "spelling", "technical", "both"}

PureInit ==
  /\ apiKey = null
  /\ isProcessing = FALSE
  /\ lastIndex = [p \in Patterns |-> 0]
  /\ pc = [c \in Calls |-> "idle"]
  /\ op = [c \in Calls |-> "none"]
  /\ text = [c \in Calls |-> <<>>]
  /\ locals = [c \in Calls |-> NoLocals]
  /\ ai = [c \in Calls |-> undefined]
  /\ result = [c \in Calls |-> undefined]
  /\ net = [c \in Calls |-> "none"]
  /\ hist = [c \in Calls |-> NoHist]
  /\ \/ \E txt \in AllTexts, r \in PureReplies :
          input = [f |-> "analyze", text |-> txt, reply |-> r]
     \/ \E c \in AllContents : input = [f |-> "parse", content |-> Text(c)]
     \/ \E txt \in CorrectionTexts, ps \in CorrectionParts, r \in CorrectionReplies :
          input = [f |-> "correct", text |-> txt, parts |-> ps, reply |-> r]
  /\ output = undefined

\* The local analyses, the aggregation and the consolidation of one analysis
\* whose remote path went as input.reply says.
Analyze ==
  /\ input.f = "analyze"
  /\ output = undefined
  /\ \E tech \in {applyTechnicalPatterns(input.text, lastIndex)} :
     \E loc \in {[spelling |-> checkBasicSpelling(input.text),
                 technical |-> [improvedText |-> tech.improvedText,
                                suggestions |-> tech.suggestions],
                 clarity |-> analyzeClarityBasic(input.text)]} :
     \E completion \in {
           CASE input.reply.t = "none"    -> undefined
             [] input.reply.t = "clarity" -> [throw |-> FALSE, v |-> catchAI(input.text)]
             [] input.reply.t = "body"    ->
                  [throw |-> FALSE, v |-> afterJson(input.reply.body, input.text)]} :
     \E r \in {analyzeTextReturn(loc, completion)} :
         /\ lastIndex' = tech.lastIndex
         /\ output' = IF r.throw THEN [t |-> "throw"]
                      ELSE [t |-> "analysis", analysis |-> r.v,
                            suggestions |-> generateSuggestions(r.v)]
  /\ UNCHANGED <<apiKey, isProcessing, pc, op, text, locals, ai, result, net, hist, input>>

\* parseAIResponse applied to input.content.
Parse ==
  /\ input.f = "parse"
  /\ output = undefined
  /\ output' = [t |-> "parsed", v |-> parseAIResponse(input.content)]
  /\ UNCHANGED <<apiKey, isProcessing, lastIndex, pc, op, text, locals, ai, result,
                 net, hist, input>>

\* applyCorrections applied to input.text and a corrections object holding the
\* analyses of that text input.parts names and the remote part input.reply
\* names.
Correct ==
  /\ input.f = "correct"
  /\ output = undefined
  /\ \E tech \in {applyTechnicalPatterns(input.text, lastIndex)} :
     \E remote \in {
           CASE input.reply.t = "none"    -> null
             [] input.reply.t = "clarity" -> catchAI(input.text)
             [] input.reply.t = "answer"  ->
                  parseAIResponse(Text(<<Open, Members(input.reply.answer), Close>>))} :
     \E corrections \in {
           CASE input.parts = "neither" -> [t |-> "object", ai |-> remote]
             [] input.parts = "spelling" ->
                  [t |-> "object", ai |-> remote,
                   spelling |-> checkBasicSpelling(input.text)]
             [] input.parts = "technical" ->
                  [t |-> "object", ai |-> remote,
                   technical |-> [improvedText |-> tech.improvedText,
                                  suggestions |-> tech.suggestions]]
             [] input.parts = "both" ->
                  [t |-> "object", ai |-> remote,
                   spelling |-> checkBasicSpelling(input.text),
                   technical |-> [improvedText |-> tech.improvedText,
                                  suggestions |-> tech.suggestions]]} :
         /\ lastIndex' = IF input.parts \in {"technical", "both"} THEN tech.lastIndex ELSE lastIndex
         /\ output' = [t |-> "corrected", corrections |-> corrections,
                       v |-> applyCorrections(input.text, corrections)]
  /\ UNCHANGED <<apiKey, isProcessing, pc, op, text, locals, ai, result, net, hist, input>>

PureNext == Analyze \/ Parse \/ Correct

PureSpec == PureInit /\ [][PureNext]_vars

(* ------------------ Pattern Rewriter call sequences -------------------- *)
\* The texts applyTechnicalPatterns is called with, one call after another on
\* one instance: words that three of the rules match, alone or together, the
\* matches ending behind a space, before a full stop and at the end of a word.
RewriteWords == {"muito", "ruim.", "não", "funciona"}
RewriteTexts == UNION {[1..k -> RewriteWords] : k \in 0..MaxWords}

RewriteInit ==
  /\ apiKey = null
  /\ isProcessing = FALSE
  /\ lastIndex = [p \in Patterns |-> 0]
  /\ pc = [c \in Calls |-> "idle"]
  /\ op = [c \in Calls |-> "none"]
  /\ text = [c \in Calls |-> <<>>]
  /\ locals = [c \in Calls |-> NoLocals]
  /\ ai = [c \in Calls |-> undefined]
  /\ result = [c \in Calls |-> undefined]
  /\ net = [c \in Calls |-> "none"]
  /\ hist = [c \in Calls |-> NoHist]
  /\ input = [f |-> "none"]
  /\ output = undefined

\* applyTechnicalPatterns(txt) on the instance the earlier calls were made on.
\* input.prior records whether an earlier call matched a rule (history, read
\* by no action).
Rewrite(txt) ==
  /\ \E tech \in {applyTechnicalPatterns(txt, lastIndex)} :
       /\ lastIndex' = tech.lastIndex
       /\ output' = [t |-> "rewritten", improvedText |-> tech.improvedText,
                     suggestions |-> tech.suggestions]
  /\ input' = [f |-> "rewrite", text |-> txt,
               prior |-> input.f = "rewrite"
                           /\ (input.prior \/ output.suggestions # <<>>)]
  /\ UNCHANGED <<apiKey, isProcessing, pc, op, text, locals, ai, result, net, hist>>

RewriteNext == \E txt \in RewriteTexts : Rewrite(txt)

RewriteSpec == RewriteInit /\ [][RewriteNext]_vars

(* ------------------------------- claims -------------------------------- *)
Outstanding == {c \in Calls : net[c] # "none"}

Done(c) == pc[c] = "done" /\ op[c] = "analyzeText"

\* The score the local signals alone give: 10 minus 0.5 per spelling
\* correction and 2, 1 or 0.5 per clarity issue, clamped and rounded.
LocalOnly(a) == clamp(Num(roundTenth(2 * localScore(a.spelling, a.clarity))))

\* C1: at most one outbound request is outstanding at any time, and a call
\* that arrived while isProcessing was set issued no request and resolves with
\* the clarity issues of its text (or, from analyzeText on a short text, with
\* no remote part at all).
C1_SingleFlight ==
  /\ Cardinality(Outstanding) <= 1
  /\ \A c \in Calls :
       hist[c].busy =>
         /\ ~hist[c].issued
         /\ net[c] = "none"
         /\ pc[c] \in {"resume", "done"}
         /\ pc[c] = "resume" => ai[c] = [throw |-> FALSE, v |-> Arr(analyzeClarityBasic(text[c]))]
         /\ (pc[c] = "done" /\ op[c] = "analyzeWithAI") =>
              result[c] = Arr(analyzeClarityBasic(text[c]))
         /\ Done(c) => result[c].ai \in {null, Arr(analyzeClarityBasic(text[c]))}

\* C1 witness: one call's request is outstanding while another call, which
\* arrived with the flag set, has resolved through the guard.
C1_Witness ==
  \E c, d \in Calls :
    /\ c # d
    /\ net[c] # "none"
    /\ hist[d].busy /\ hist[d].reply = "rejected" /\ pc[d] = "done"

\* C2: isProcessing is set exactly while some call's request is outstanding:
\* every call that set it has cleared it when it returns, whatever the exit.
C2_GuaranteedRelease == isProcessing = (Outstanding # {})

\* C2 witness: a call that issued a request returned through the catch block,
\* and a later call has acquired the flag again.
C2_Witness ==
  \E c, d \in Calls :
    /\ c # d
    /\ hist[c].issued /\ hist[c].reply \in {"transport", "status", "bodyError", "noChoices"}
    /\ pc[c] \in {"resume", "done"}
    /\ hist[d].issued /\ pc[d] = "fetch"

\* C3: analyzeText never raises, and what it resolves with has the spelling,
\* technical, clarity and overallScore fields.
C3_NeverRaises ==
  \A c \in Calls :
    /\ pc[c] # "raised"
    /\ Done(c) =>
         {"spelling", "technical", "clarity", "overallScore"} \subseteq DOMAIN result[c]

\* C3 witness: analyzeText calls have resolved after a body without choices
\* and without any remote attempt.
C3_Witness ==
  \E c, d \in Calls :
    /\ Done(c) /\ hist[c].reply = "noChoices"
    /\ Done(d) /\ hist[d].reply = "skipped"

C5_RemoteOnlyIfAttempted ==
  \A c \in Calls : (Done(c) /\ result[c].ai # null) => hist[c].issued

\* C6: after a non-success status or a transport failure the result's ai is a
\* RemoteAnalysis with origin fallback (type basic) and succeeded false, hasAI
\* is false and the score is the local one.
C6_FailureLabelledFallback ==
  \A c \in Calls :
    (Done(c) /\ hist[c].reply \in {"transport", "status"}) =>
      /\ prop(result[c].ai, "type") = Str("basic")
      /\ prop(result[c].ai, "hasAI") = Bool(FALSE)
      /\ result[c].hasAI = Bool(FALSE)
      /\ result[c].overallScore = LocalOnly(result[c])

\* The content holds no span from an opening brace to a later closing brace,
\* or the span from the first opening brace to the last closing brace is not
\* "{}" or "{" members "}".
Unparseable(tokens) ==
  \/ ~\E i, j \in 1..Len(tokens) : i < j /\ tokens[i] = Open /\ tokens[j] = Close
  \/ \E i, j \in 1..Len(tokens) :
       /\ i < j /\ tokens[i] = Open /\ tokens[j] = Close
       /\ \A k \in 1..(i - 1) : tokens[k] # Open
       /\ \A k \in (j + 1)..Len(tokens) : tokens[k] # Close
       /\ ~(j = i + 1 \/ (j = i + 2 /\ tokens[i + 1].k = "members"))

\* The fixed unavailability fallback: origin fallback, not succeeded, one
\* generic suggestion, no score.
IsUnavailable(x) ==
  /\ x.t = "object"
  /\ DOMAIN x = {"t", "type", "suggestions", "hasAI"}
  /\ x.type = Str("basic")
  /\ x.hasAI = Bool(FALSE)
  /\ Len(x.suggestions.v) = 1

\* The body carries a string content that cannot be parsed.
MalformedReply(r) ==
  /\ r.t = "body"
  /\ r.body.t = "object"
  /\ "choices" \in DOMAIN r.body
  /\ r.body.choices # <<>>
  /\ r.body.choices[1].message.content.t = "string"
  /\ Unparseable(r.body.choices[1].message.content.tokens)

\* C7: for a content without a parseable JSON object parseAIResponse returns
\* the fixed unavailability fallback, and an analysis with such a reply has
\* hasAI false and the local score.
C7_MalformedFallsBack ==
  /\ (input.f = "parse" /\ output # undefined /\ Unparseable(input.content.tokens)) =>
       IsUnavailable(output.v)
  /\ (input.f = "analyze" /\ output # undefined /\ MalformedReply(input.reply)) =>
       /\ output.t = "analysis"
       /\ IsUnavailable(output.analysis.ai)
       /\ output.analysis.hasAI = Bool(FALSE)
       /\ output.analysis.overallScore = LocalOnly(output.analysis)

\* C7 witness: an analysis with local penalties whose reply held braces around
\* prose.
C7_Witness ==
  /\ input.f = "analyze" /\ output # undefined
  /\ MalformedReply(input.reply)
  /\ \E i \in 1..Len(input.reply.body.choices[1].message.content.tokens) :
       input.reply.body.choices[1].message.content.tokens[i] = Open
  /\ Len(output.analysis.spelling) > 0
  /\ output.analysis.overallScore.v < 1000

\* C8: an analyzeText call made without a credential, or with a text of at most
\* 10 characters, issues no request and resolves at once with ai null and
\* hasAI false, whatever the in-flight flag.
C8_PolicyGating ==
  \A c \in Calls :
    (op[c] = "analyzeText" /\ (~hist[c].keyed \/ TextLength(text[c]) <= 10)) =>
      /\ ~hist[c].issued
      /\ net[c] = "none"
      /\ pc[c] = "done"
      /\ result[c].ai = null
      /\ result[c].hasAI = Bool(FALSE)

\* C8 witness: with a credential and the flag set, a text of exactly 10
\* characters was analysed; without a credential, a longer text was.
C8_Witness ==
  \E c, d \in Calls :
    /\ Done(c) /\ hist[c].keyed /\ hist[c].busy /\ TextLength(text[c]) = 10
    /\ Done(d) /\ ~hist[d].keyed /\ TextLength(text[d]) > 10

\* C9: an analyzeText call behind its await does not stay there for ever while
\* another call is suspended on its fetch, and when it leaves its await it has
\* completed.  (No fairness obliges a request to settle, so the behaviours in
\* which the other call's request hangs for ever are among those checked.)
C9_HungBlocksOnlyCaller ==
  /\ \A c \in Calls :
       []<>~(pc[c] = "resume" /\ \E d \in Calls \ {c} : pc[d] = "fetch")
  /\ [][\A c \in Calls : (pc[c] = "resume" /\ pc'[c] # "resume") => pc'[c] = "done"]_vars

\* C9 witness: an analyzeText call that arrived with the flag set has
\* completed while the other call is still suspended on its fetch.
C9_Witness ==
  \E c, d \in Calls :
    /\ c # d
    /\ pc[d] = "fetch" /\ net[d] = "pending" /\ op[d] = "analyzeText"
    /\ Done(c) /\ hist[c].busy /\ hist[c].reply = "rejected"

\* The list generateSuggestions builds before cutting it: the spelling
\* summary, the matched rules' rationales, the clarity rationales, the remote
\* suggestions.
Combined(a) ==
  (IF Len(a.spelling) > 0
   THEN << "Correções ortográficas: " \o ToString(Len(a.spelling)) \o " encontradas" >>
   ELSE <<>>)
  \o [i \in 1..Len(a.technical.suggestions) |-> a.technical.suggestions[i].suggestion]
  \o [i \in 1..Len(a.clarity) |-> a.clarity[i].suggestion]
  \o (IF a.ai.t = "object" /\ "suggestions" \in DOMAIN a.ai THEN a.ai.suggestions.v ELSE <<>>)

\* Rank of a clarity issue kind in the order length, punctuation, vague,
\* repetition.
KindRank(k) ==
  CASE k = "length" -> 1 [] k = "punctuation" -> 2 [] k = "vague" -> 3 [] k = "repetition" -> 4

\* C10: generateSuggestions returns the first min(3, n) entries of the
\* combined list, whose clarity part is in the order length, punctuation,
\* vague, repetition; it never returns more than 3 entries.
C10_SuggestionsCapped ==
  (input.f = "analyze" /\ output # undefined /\ output.t = "analysis") =>
    LET full == Combined(output.analysis)
        n == IF Len(full) < 3 THEN Len(full) ELSE 3
    IN  /\ Len(output.suggestions) <= 3
        /\ Len(output.suggestions) = n
        /\ \A i \in 1..n : output.suggestions[i] = full[i]
        /\ \A i, j \in 1..Len(output.analysis.clarity) :
             i < j => KindRank(output.analysis.clarity[i].type)
                        < KindRank(output.analysis.clarity[j].type)

\* C10 witness: an analysis with spelling corrections, matched rules, clarity
\* issues and remote suggestions, of which only the first three are returned.
C10_Witness ==
  /\ input.f = "analyze" /\ output # undefined /\ output.t = "analysis"
  /\ Len(output.analysis.spelling) > 0
  /\ Len(output.analysis.technical.suggestions) > 0
  /\ Len(output.analysis.clarity) > 1
  /\ output.analysis.ai.t = "object"
  /\ Len(Combined(output.analysis)) > 4
  /\ Len(output.suggestions) = 3

\* The remote score of an analysis whose remote result carries a number from
\* 1 to 10, in hundredths; 0 when it carries none.
RemoteScore(a) ==
  IF a.ai.t = "object" /\ "score" \in DOMAIN a.ai /\ a.ai.score.t = "number"
     /\ a.ai.score.v >= 100 /\ a.ai.score.v <= 1000
  THEN a.ai.score.v ELSE 0

\* 10 minus 0.5 per spelling correction, minus 2, 1 or 0.5 per clarity issue
\* of high, medium or low severity, in hundredths.
LocalScore(a) ==
  1000 - 50 * Len(a.spelling)
       - 200 * Cardinality({i \in 1..Len(a.clarity) : a.clarity[i].severity = "high"})
       - 100 * Cardinality({i \in 1..Len(a.clarity) : a.clarity[i].severity = "medium"})
       - 50 * Cardinality({i \in 1..Len(a.clarity) : a.clarity[i].severity = "low"})

Clamped(x) == IF x > 1000 THEN 1000 ELSE IF x < 100 THEN 100 ELSE x

\* C11: with a remote score from 1 to 10 the final score is the arithmetic
\* mean of the local and the remote score, rounded to one decimal (halves up)
\* and clamped to [1, 10]; it lies between the clamped local score and the
\* remote score, and equals the remote score only when the clamped local score
\* is within one tenth of it.
C11_MeanOfLocalAndRemote ==
  (input.f = "analyze" /\ output # undefined /\ output.t = "analysis"
     /\ RemoteScore(output.analysis) > 0) =>
    LET l == LocalScore(output.analysis)
        r == RemoteScore(output.analysis)
        f == output.analysis.overallScore
        lo == IF Clamped(l) < r THEN Clamped(l) ELSE r
        hi == IF Clamped(l) < r THEN r ELSE Clamped(l)
    IN  /\ f.t = "number"
        /\ \E m \in 0..100 :
              /\ 20 * m - 10 <= l + r /\ l + r < 20 * m + 10
              /\ f.v = Clamped(10 * m)
        /\ lo <= f.v /\ f.v <= hi
        /\ f.v = r => (Clamped(l) - r <= 10 /\ r - Clamped(l) <= 10)

\* C11 witness: a remote score of 1.0 and a local score above 9 give a final
\* score strictly between the two.
C11_Witness ==
  /\ input.f = "analyze" /\ output # undefined /\ output.t = "analysis"
  /\ RemoteScore(output.analysis) = 100
  /\ LocalScore(output.analysis) > 900
  /\ output.analysis.overallScore.v > 100
  /\ output.analysis.overallScore.v < LocalScore(output.analysis)

\* A final score equal to the remote score although the local score differs:
\* the mean of 9.5 and 9.6 rounds up to 9.6.
C11_RoundsOntoRemote ==
  /\ input.f = "analyze" /\ output # undefined /\ output.t = "analysis"
  /\ RemoteScore(output.analysis) = 960
  /\ LocalScore(output.analysis) = 950
  /\ output.analysis.overallScore.v = 960

\* The remote improved text of a corrections object, <<>> when it has none.
RemoteText(c) ==
  IF c.ai.t = "object" /\ "improvedText" \in DOMAIN c.ai /\ c.ai.improvedText.t = "string"
  THEN c.ai.improvedText.tokens ELSE <<>>

\* The Pattern Rewriter's text of a corrections object, <<>> when it has none.
RewriterText(c) == IF "technical" \in DOMAIN c THEN c.technical.improvedText ELSE <<>>

\* The spelling corrections of a corrections object.
Flagged(c) == IF "spelling" \in DOMAIN c THEN c.spelling ELSE <<>>

\* out is txt with every word a spelling correction names replaced by the
\* correction's suggestion (a punctuation mark behind the word may stay) and
\* every other word left as it is.
EachReplaced(txt, flagged, out) ==
  /\ Len(out) = Len(txt)
  /\ \A i \in 1..Len(txt) :
        IF \E k \in 1..Len(flagged) : flagged[k].position = i - 1
        THEN \E k \in 1..Len(flagged) :
               /\ flagged[k].position = i - 1
               /\ out[i] \in {flagged[k].suggestion, flagged[k].suggestion \o punct(txt[i])}
        ELSE out[i] = txt[i]

\* C12: applyCorrections returns the remote improved text when that is present
\* and longer than 10 characters; otherwise the Pattern Rewriter's text when
\* that is present; otherwise the original text with each spelling correction
\* replaced.  The output is never a merge of two sources.
C12_LastApplicableWins ==
  (input.f = "correct" /\ output # undefined) =>
    LET c == output.corrections
    IN  IF TextLength(RemoteText(c)) > 10 THEN output.v = RemoteText(c)
        ELSE IF RewriterText(c) # <<>> THEN output.v = RewriterText(c)
        ELSE EachReplaced(input.text, Flagged(c), output.v)

\* The precedence of the two full-text overrides alone: a present override is
\* returned whole, the remote text before the Pattern Rewriter's.
OverridesWin ==
  (input.f = "correct" /\ output # undefined) =>
    LET c == output.corrections
    IN  /\ TextLength(RemoteText(c)) > 10 => output.v = RemoteText(c)
        /\ (TextLength(RemoteText(c)) <= 10 /\ RewriterText(c) # <<>>)
             => output.v = RewriterText(c)

\* A correction of a word followed by a full stop is left unapplied: with no
\* override present the text comes back as it went in.
DottedWordKept ==
  /\ input.f = "correct" /\ output # undefined
  /\ input.text = <<"ruim.">>
  /\ Flagged(output.corrections) =
       << [original |-> "ruim.", suggestion |-> "em más condições",
           position |-> 0, type |-> "spelling"] >>
  /\ RewriterText(output.corrections) = <<>>
  /\ RemoteText(output.corrections) = <<>>
  /\ output.v = <<"ruim.">>

\* Rule p's pattern matches somewhere in txt.
MatchesSomewhere(p, txt) == \E i \in 1..Len(txt) : matchWords(p, txt, i) > 0

\* The rules a match list names, in the list's order.
RulesOf(suggestions) ==
  [k \in 1..Len(suggestions) |->
     CHOOSE p \in Patterns : technicalPatterns[p].pattern = suggestions[k].pattern]

\* C13: after any sequence of applyTechnicalPatterns calls on one instance, a
\* call returns the rewritten text and the ordered match list a fresh instance
\* returns for the same text, every pattern's match position is back at 0,
\* and the match list names, in rule order, exactly the rules whose pattern
\* matches somewhere in the original text.
C13_NoStateBetweenCalls ==
  input.f = "rewrite" =>
    LET fresh == applyTechnicalPatterns(input.text, [p \in Patterns |-> 0])
        rules == RulesOf(output.suggestions)
    IN  /\ output.improvedText = fresh.improvedText
        /\ output.suggestions = fresh.suggestions
        /\ lastIndex = [p \in Patterns |-> 0]
        /\ \A p \in Patterns :
              (\E k \in 1..Len(rules) : rules[k] = p) <=> MatchesSomewhere(p, input.text)
        /\ \A j, k \in 1..Len(rules) : j < k => rules[j] < rules[k]

\* C13 witness: a call that matches two rules, one of them behind the start of
\* the text, on an instance on which an earlier call matched a rule.
C13_Witness ==
  /\ input.f = "rewrite" /\ input.prior
  /\ input.text = <<"funciona", "muito", "ruim.">>
  /\ Len(output.suggestions) = 2
  /\ output.improvedText = <<"funciona", "em condições inadequadas.">>

====
